---- MODULE Spec2Model ----
(***************************************************************************)
(* Debug-information generation of the CPU backend                         *)
(* (lib/Backends/CPU/DebugInfo.cpp): the synthesized source file and the   *)
(* line of its first instruction, the debug type cache, the subprograms,   *)
(* the argument shadows, the instruction locations and the global-variable *)
(* records of weights and activations.                                     *)
(*                                                                         *)
(* A std::string is a sequence of one-character strings.  A metadata node  *)
(* is a record with a "kind" field; the null pointer is NullMD.  The       *)
(* identity of a node made by the DIBuilder is its content plus "serial",  *)
(* the number of equal-content nodes made before it.  assert and           *)
(* llvm_unreachable end the compilation (aborted).                         *)
(***************************************************************************)
EXTENDS Integers, Sequences, FiniteSets, TLC

VARIABLES
  emitDebugInfo,    \* the -g flag
  aborted,          \* an assert or llvm_unreachable fired
  F_,               \* the Glow IR function being compiled (read only)
  valueNames,       \* Value -> its name (Named::setName changes it)
  allocationsInfo_, \* the allocation planner's tables (read only)
  irfile,           \* the <main>.glow file in the output directory
  dbgInfo_,         \* LLVMIRGen::dbgInfo_
  DIBuilder_,       \* LLVMIRGen::DIBuilder_ and the nodes it has made
  llmodule_,        \* the LLVM module: flags, globals, functions
  curLoc,           \* per IRBuilder (one per defined function): current location
  origNames,        \* history: the names before any normalization
  normOut,          \* history: Value -> the names normalizeName left, in order
  typeRet,          \* history: native type asked for -> descriptors getDebugType returned
  spRet,            \* history: function -> values getOrCreateFunctionDebugInfo returned
  preSweep,         \* history: the functions as generateDebugInfo found them
  offCalls          \* history: the entry points called with the flag off

vars == <<emitDebugInfo, aborted, F_, valueNames, allocationsInfo_, irfile,
          dbgInfo_, DIBuilder_, llmodule_, curLoc, origNames, normOut,
          typeRet, spRet, preSweep, offCalls>>

-----------------------------------------------------------------------------
(* Bounds of the model. *)
MaxNameLen == 3      \* longest Value name the normalization is tried on
MaxHeaderLines == 9  \* most lines a dump holds before its last two lines
DumpInstrs == 5      \* instructions of the IR function the dumps are tried with
MaxWeights == 1      \* most WeightVars of the IR function
MaxIRInstrs == 2     \* most instructions of the IR function
MaxEmit == 1         \* most machine instructions lowering adds per function
MaxPtrDepth == 2     \* deepest pointer type getDebugType is asked for

(* Widths the target fixes (x86-64). *)
FloatBits == 32      \* sizeof(float) * 8
SizeTBits == 64      \* sizeof(size_t) * 8
PtrBits == 64        \* sizeof(void *) * 8
FloatAlign == 4      \* sizeof(float)
MarkerLen == 6       \* s.substr(0, 6)
DwarfVersion == 4
DebugMetadataVersion == 3  \* llvm::DEBUG_METADATA_VERSION

NullMD == [kind |-> "null"]

-----------------------------------------------------------------------------
(* Characters and strings. *)
Lower == {"a","b","c","d","e","f","g","h","i","j","k","l","m",
          "n","o","p","q","r","s","t","u","v","w","x","y","z"}
Upper == {"A","B","C","D","E","F","G","H","I","J","K","L","M",
          "N","O","P","Q","R","S","T","U","V","W","X","Y","Z"}
Digits == {"0","1","2","3","4","5","6","7","8","9"}

isalpha(c) == c \in Lower \cup Upper
isdigit(c) == c \in Digits

substr(s, pos, n) ==
  SubSeq(s, pos + 1, IF pos + n <= Len(s) THEN pos + n ELSE Len(s))

startswith(s, prefix) ==
  /\ Len(s) >= Len(prefix)
  /\ SubSeq(s, 1, Len(prefix)) = prefix

(* The characters normalizeName leaves in place. *)
keepChar(c) == isalpha(c) \/ isdigit(c) \/ c = "_"

normalizeCharNoDigit(c) == IF ~isalpha(c) /\ c # "_" THEN "_" ELSE c

normalizeChar(c) == IF ~isalpha(c) /\ ~isdigit(c) /\ c # "_" THEN "_" ELSE c

(* The lambda's loop over the characters of the name. *)
normalizedString(name) == [i \in 1..Len(name) |-> normalizeChar(name[i])]

(* bool changed of the lambda. *)
normalizeChanged(name) == \E i \in 1..Len(name) : ~keepChar(name[i])

(* normalizeName(v): the names after the call (setName only when changed). *)
normalizeName(names, v) ==
  IF normalizeChanged(names[v])
    THEN [names EXCEPT ![v] = normalizedString(names[v])]
    ELSE names

-----------------------------------------------------------------------------
(* Native (LLVM) types: base, bit width of an integer, pointer depth. *)
VoidTy == [base |-> "void", bits |-> 0, ptr |-> 0]
FloatTy == [base |-> "float", bits |-> 0, ptr |-> 0]
IntNTy(n) == [base |-> "int", bits |-> n, ptr |-> 0]
PointerTo(ty) == [ty EXCEPT !.ptr = @ + 1]
getPointerElementType(ty) == [ty EXCEPT !.ptr = @ - 1]
isPointerTy(ty) == ty.ptr > 0
isIntegerTy(ty) == ty.ptr = 0 /\ ty.base = "int"
Int8PtrTy == PointerTo(IntNTy(8))

(* How many nodes of this content the builder has made. *)
SerialOf(nodes, content) ==
  Cardinality({n \in nodes : [n EXCEPT !.serial = 0] = content})

Fresh(nodes, content) == [content EXCEPT !.serial = SerialOf(nodes, content)]

(* std::to_string of a non-negative number. *)
DigitChar(d) ==
  CASE d = 0 -> "0" [] d = 1 -> "1" [] d = 2 -> "2" [] d = 3 -> "3" [] d = 4 -> "4"
    [] d = 5 -> "5" [] d = 6 -> "6" [] d = 7 -> "7" [] d = 8 -> "8" [] OTHER -> "9"

RECURSIVE to_string(_)
to_string(n) ==
  IF n < 10 THEN <<DigitChar(n)>> ELSE to_string(n \div 10) \o <<DigitChar(n % 10)>>

createBasicType(name, bits, enc) ==
  [kind |-> "DIBasicType", name |-> name, bits |-> bits, enc |-> enc, serial |-> 0]

createPointerType(pointee, bits) ==
  [kind |-> "DIDerivedType", pointee |-> pointee, bits |-> bits, serial |-> 0]

(* getDebugType on cache `c` (DITypes_) with `made` the type nodes the     *)
(* builder has made: the cache, the nodes, the result, and whether it      *)
(* ended without llvm_unreachable.                                         *)
cachedNever(c, ty) == FALSE

(* if (dbgInfo_.DITypes_.count(ty)) *)
cached(c, ty) == ty \in DOMAIN c

RECURSIVE getDebugType(_, _, _)
getDebugType(c, made, ty) ==
  IF cached(c, ty)
    THEN [cache |-> c, made |-> made, ret |-> c[ty], ok |-> TRUE]
  ELSE IF ty = VoidTy
    THEN [cache |-> (ty :> NullMD) @@ c, made |-> made, ret |-> NullMD, ok |-> TRUE]
  ELSE IF ty = FloatTy
    THEN LET d == Fresh(made, createBasicType(<<"f","l","o","a","t">>, FloatBits, "DW_ATE_float"))
         IN [cache |-> (ty :> d) @@ c, made |-> made \cup {d}, ret |-> d, ok |-> TRUE]
  ELSE IF ty = IntNTy(SizeTBits)
    THEN LET d == Fresh(made, createBasicType(<<"s","i","z","e","_","t">>, SizeTBits, "DW_ATE_unsigned"))
         IN [cache |-> (ty :> d) @@ c, made |-> made \cup {d}, ret |-> d, ok |-> TRUE]
  ELSE IF isIntegerTy(ty)
    THEN LET d == Fresh(made, createBasicType(<<"i","n","t">> \o to_string(ty.bits), ty.bits, "DW_ATE_unsigned"))
         IN [cache |-> (ty :> d) @@ c, made |-> made \cup {d}, ret |-> d, ok |-> TRUE]
  ELSE IF isPointerTy(ty)
    THEN LET r == getDebugType(c, made, getPointerElementType(ty))
             d == Fresh(r.made, createPointerType(r.ret, PtrBits))
         IN IF r.ok
              THEN [cache |-> (ty :> d) @@ r.cache, made |-> r.made \cup {d},
                    ret |-> d, ok |-> TRUE]
              ELSE r
  ELSE [cache |-> c, made |-> made, ret |-> NullMD, ok |-> FALSE]

(* getDebugType over the parameter types, in order. *)
prependRet(x, t) == [t EXCEPT !.rets = <<x>> \o @]

RECURSIVE getDebugTypes(_, _, _)
RECURSIVE thenDebugTypes(_, _)
getDebugTypes(c, made, tys) ==
  IF tys = <<>>
    THEN [cache |-> c, made |-> made, rets |-> <<>>, ok |-> TRUE]
    ELSE thenDebugTypes(getDebugType(c, made, Head(tys)), Tail(tys))

thenDebugTypes(h, rest) ==
  IF h.ok
    THEN prependRet(h.ret, getDebugTypes(h.cache, h.made, rest))
    ELSE [cache |-> h.cache, made |-> h.made, rets |-> <<>>, ok |-> FALSE]

-----------------------------------------------------------------------------
(* The LLVM module.  A function: name, declaration or definition, return   *)
(* and parameter types, attached subprogram, and its instructions (the     *)
(* blocks in order), each [op, arg, loc].                                  *)
FuncIds == {"main", "kernel", "intrinsic", "anon", "llvmk"}
Defined == {"main", "kernel"}

MainName == <<"m","a","i","n">>
LlvmDot == <<"l","l","v","m",".">>

InitFunctions ==
  [f \in FuncIds |->
     CASE f = "main" ->
            [name |-> MainName, decl |-> FALSE, ret |-> VoidTy,
             params |-> <<Int8PtrTy, Int8PtrTy, Int8PtrTy>>,
             subprogram |-> NullMD, body |-> <<>>]
       [] f = "kernel" ->
            [name |-> <<"k">>, decl |-> FALSE, ret |-> VoidTy,
             params |-> <<PointerTo(FloatTy), IntNTy(SizeTBits)>>,
             subprogram |-> NullMD, body |-> <<>>]
       [] f = "intrinsic" ->
            [name |-> LlvmDot \o <<"f">>, decl |-> TRUE, ret |-> VoidTy,
             params |-> <<Int8PtrTy>>, subprogram |-> NullMD, body |-> <<>>]
       [] f = "anon" ->
            [name |-> <<>>, decl |-> TRUE, ret |-> VoidTy,
             params |-> <<>>, subprogram |-> NullMD, body |-> <<>>]
       [] OTHER ->
            [name |-> <<"l","l","v","m","k">>, decl |-> TRUE, ret |-> FloatTy,
             params |-> <<IntNTy(32)>>, subprogram |-> NullMD, body |-> <<>>]]

InitModule == [flags |-> {}, globals |-> <<>>, functions |-> InitFunctions]

InitDIBuilder ==
  [constructed |-> FALSE, types |-> {}, subroutineTypes |-> {}, subprograms |-> {},
   files |-> {}, compileUnits |-> {}, paramVars |-> {}, arrayTypes |-> {},
   gvExprs |-> {}, finalizedSubprograms |-> {}, finalized |-> FALSE]

InitDbgInfo ==
  [constWeightsBaseAddressGV_ |-> 0, mutableWeightsBaseAddressGV_ |-> 0,
   activationsBaseAddressGV_ |-> 0, mainFileFirstInstrLineNo_ |-> 0,
   mainFile_ |-> NullMD, compilationUnit_ |-> NullMD, mainF_ |-> NullMD,
   DITypes_ |-> <<>>]

needsSubprogramAlways(fn) == TRUE

(* No subprogram for a function with no name or an "llvm." name. *)
isInternalName(name) == name = <<>> \/ startswith(name, LlvmDot)

createFunction(scope, name, file, lineNo, ty) ==
  [kind |-> "DISubprogram", scope |-> scope, name |-> name, linkageName |-> <<>>,
   file |-> file, line |-> lineNo, type |-> ty, scopeLine |-> lineNo, serial |-> 0]

(* if (!DIFunction) of getOrCreateFunctionDebugInfo. *)
needsSubprogram(fn) == fn.subprogram = NullMD

(* F->setSubprogram(DIFunction) with the node createFunction made. *)
attachSubprogram(d, b, m, f, r, fnTy, sp) ==
  [dbg |-> [d EXCEPT !.DITypes_ = r.cache],
   dib |-> [b EXCEPT !.types = r.made,
                     !.subroutineTypes = @ \cup {fnTy},
                     !.subprograms = @ \cup {sp}],
   mod |-> [m EXCEPT !.functions[f].subprogram = sp],
   ret |-> sp, ok |-> TRUE]

(* The body of if (!DIFunction), r being the debug types of the result and *)
(* of the parameters.                                                      *)
createSubprogram(d, b, m, f, scope, file, lineNo, r) ==
  IF r.ok
    THEN attachSubprogram(d, b, m, f, r,
           [kind |-> "DISubroutineType", types |-> r.rets],
           Fresh(b.subprograms,
                 createFunction(scope, m.functions[f].name, file, lineNo,
                                [kind |-> "DISubroutineType", types |-> r.rets])))
    ELSE [dbg |-> [d EXCEPT !.DITypes_ = r.cache],
          dib |-> [b EXCEPT !.types = r.made],
          mod |-> m, ret |-> NullMD, ok |-> FALSE]

(* getOrCreateFunctionDebugInfo(F, scope, file, lineNo) on the debug       *)
(* context d (dbgInfo_), the builder b and the module m: the three after   *)
(* the call, the returned subprogram, and ok (no llvm_unreachable).        *)
getOrCreateFunctionDebugInfo(d, b, m, f, scope, file, lineNo) ==
  IF isInternalName(m.functions[f].name)
    THEN [dbg |-> d, dib |-> b, mod |-> m, ret |-> NullMD, ok |-> TRUE]
  ELSE IF needsSubprogram(m.functions[f])
    THEN createSubprogram(d, b, m, f, scope, file, lineNo,
           getDebugTypes(d.DITypes_, b.types,
                         <<m.functions[f].ret>> \o m.functions[f].params))
  ELSE [dbg |-> d, dib |-> b, mod |-> m, ret |-> m.functions[f].subprogram, ok |-> TRUE]

-----------------------------------------------------------------------------
(* The Glow IR function F_: its WeightVars (vars) and instructions         *)
(* (instrs) as Value ids, each Value's class, a TensorView's source, the   *)
(* dims, and the text F_->dump() prints, as lines.                         *)
Marker == <<"c","o","d","e"," ","{">>

isMarkerLineExact(s) == s = Marker

isMarkerLine(s) == substr(s, 0, MarkerLen) = Marker

(* The while (getline(in, s)) loop: the value mainFileFirstInstrLineNo_    *)
(* holds after it (0, its initial value, when the loop never assigns).     *)
RECURSIVE scanLines(_, _)
scanLines(in, lineNo) ==
  IF in = <<>>
    THEN 0
    ELSE IF isMarkerLine(Head(in))
           THEN (lineNo + 1) + 1
           ELSE scanLines(Tail(in), lineNo + 1)

(* instrNumbering_->getInstrNumber(I): the position in the function. *)
getInstrNumber(F, v) == (CHOOSE i \in 1..Len(F.instrs) : F.instrs[i] = v) - 1

isAllocationOnly(F, v) == F.kind[v] = "AllocActivationInst"

isTensorValue(F, v) == F.kind[v] \in {"AllocActivationInst", "TensorViewInst"}

(* getOrigin: through TensorViews down to the allocation. *)
RECURSIVE getOrigin(_, _)
getOrigin(F, v) ==
  IF F.kind[v] = "TensorViewInst" THEN getOrigin(F, F.src[v]) ELSE v

(* The Values initDebugInfo normalizes and generateDebugInfo describes, in *)
(* the order of the two loops.                                             *)
RECURSIVE tensorInstrs(_, _)
tensorInstrs(F, is) ==
  IF is = <<>> THEN <<>>
  ELSE (IF isTensorValue(F, Head(is)) THEN <<Head(is)>> ELSE <<>>)
         \o tensorInstrs(F, Tail(is))

debugValues(F) == F.vars \o tensorInstrs(F, F.instrs)

RECURSIVE normalizeAll(_, _)
normalizeAll(names, vs) ==
  IF vs = <<>> THEN names ELSE normalizeAll(normalizeName(names, Head(vs)), Tail(vs))

-----------------------------------------------------------------------------
(* Locations and instructions. *)
DILocation(line, col, scope) ==
  [kind |-> "DILocation", line |-> line, col |-> col, scope |-> scope]

Inst(op, arg, gv, loc) == [op |-> op, arg |-> arg, gv |-> gv, loc |-> loc]

(* The three stores of the entry function's first three arguments. *)
baseAddressStores(d, loc) ==
  << Inst("store", 0, d.constWeightsBaseAddressGV_, loc),
     Inst("store", 1, d.mutableWeightsBaseAddressGV_, loc),
     Inst("store", 2, d.activationsBaseAddressGV_, loc) >>

IrfileName == "main.glow"
OutputDir == "/abs/out"

NewGlobal(name) == [name |-> name, init |-> "null", dbg |-> <<>>]

(* initDebugInfo with the flag on, up to and including the scan. *)
initScaffold(d, m, loc, F) ==
  LET n == Len(m.globals)
      d1 == [d EXCEPT !.constWeightsBaseAddressGV_ = n + 1,
                      !.mutableWeightsBaseAddressGV_ = n + 2,
                      !.activationsBaseAddressGV_ = n + 3]
      line == scanLines(F.dump, 0)
  IN [dbg |-> [d1 EXCEPT !.mainFileFirstInstrLineNo_ =
                           IF line = 0 THEN @ ELSE line],
      mod |-> [m EXCEPT
                 !.flags = @ \cup {<<"Debug Info Version", DebugMetadataVersion>>,
                                   <<"Dwarf Version", DwarfVersion>>},
                 !.globals = @ \o << NewGlobal("constWeightsBaseAddress"),
                                     NewGlobal("mutableWeightsBaseAddress"),
                                     NewGlobal("activationsBaseAddress") >>,
                 !.functions["main"].body = @ \o baseAddressStores(d1, loc)]]

createFile(name, dir) == [kind |-> "DIFile", name |-> name, dir |-> dir]

createCompileUnit(file) ==
  [kind |-> "DICompileUnit", lang |-> "DW_LANG_C", file |-> file,
   producer |-> "Glow Compiler", emission |-> "FullDebug"]

(* The histories: per key, the values returned and the calls (1, 2 = more). *)
AddRet(h, k, v) ==
  IF k \in DOMAIN h
    THEN [h EXCEPT ![k] = [rets |-> @.rets \cup {v}, calls |-> 2]]
    ELSE (k :> [rets |-> {v}, calls |-> 1]) @@ h

RECURSIVE AddRets(_, _, _)
AddRets(h, ks, vs) ==
  IF ks = <<>> \/ vs = <<>> THEN h
  ELSE AddRets(AddRet(h, Head(ks), Head(vs)), Tail(ks), Tail(vs))

(* What the calls getOrCreateFunctionDebugInfo makes add to the histories. *)
TypeRetAfterSubprogram(h, fnBefore, d) ==
  IF isInternalName(fnBefore.name) \/ ~needsSubprogram(fnBefore) THEN h
  ELSE LET tys == <<fnBefore.ret>> \o fnBefore.params
       IN AddRets(h, tys, [i \in 1..Len(tys) |->
                            IF tys[i] \in DOMAIN d.DITypes_ THEN d.DITypes_[tys[i]] ELSE NullMD])

(* The end of initDebugInfo: file, compile unit and the subprogram of main *)
(* (r), after the scan s found the marker.                                 *)
initDescriptors(s, file, cu, r) ==
  /\ dbgInfo_' = [r.dbg EXCEPT !.mainF_ = r.ret]
  /\ DIBuilder_' = r.dib
  /\ llmodule_' = r.mod
  /\ spRet' = AddRet(spRet, "main", r.ret)
  /\ typeRet' = TypeRetAfterSubprogram(typeRet, s.mod.functions["main"], r.dbg)
  /\ aborted' = ~r.ok

initAfterScan(s, file) ==
  IF s.dbg.mainFileFirstInstrLineNo_ # 0
    THEN initDescriptors(s, file, createCompileUnit(file),
           getOrCreateFunctionDebugInfo(
             [s.dbg EXCEPT !.mainFile_ = file,
                           !.compilationUnit_ = createCompileUnit(file)],
             [DIBuilder_ EXCEPT !.constructed = TRUE,
                                !.files = @ \cup {file},
                                !.compileUnits = @ \cup {createCompileUnit(file)}],
             s.mod, "main", file, file, 0))
    ELSE /\ dbgInfo_' = s.dbg
         /\ DIBuilder_' = [DIBuilder_ EXCEPT !.constructed = TRUE]
         /\ llmodule_' = s.mod
         /\ aborted' = TRUE
         /\ UNCHANGED <<spRet, typeRet>>

initDebugInfoNeverOff == FALSE

(* if (!emitDebugInfo) return; of initDebugInfo. *)
initDebugInfoOff == ~emitDebugInfo

initDebugInfo ==
  /\ ~aborted
  /\ IF initDebugInfoOff
       THEN /\ offCalls' = offCalls \cup {"initDebugInfo"}
            /\ UNCHANGED <<emitDebugInfo, aborted, F_, valueNames, allocationsInfo_,
                           irfile, dbgInfo_, DIBuilder_, llmodule_, curLoc, origNames,
                           normOut, typeRet, spRet, preSweep>>
       ELSE /\ ~DIBuilder_.constructed
            /\ valueNames' = normalizeAll(valueNames, debugValues(F_))
            /\ irfile' = [written |-> TRUE, name |-> IrfileName,
                          dir |-> OutputDir, content |-> F_.dump]
            /\ initAfterScan(initScaffold(dbgInfo_, llmodule_, curLoc["main"], F_),
                             createFile(IrfileName, OutputDir))
            /\ UNCHANGED <<emitDebugInfo, F_, allocationsInfo_, curLoc, origNames,
                           normOut, preSweep, offCalls>>

debugLocationOffByOne(d, F, v) ==
  DILocation(d.mainFileFirstInstrLineNo_ + getInstrNumber(F, v) + 1, 0, d.mainF_)

(* setCurrentDebugLocation(builder, I), builder being the one of function  *)
(* f and I the IR instruction v.                                           *)
debugLocationOf(d, F, v) ==
  DILocation(d.mainFileFirstInstrLineNo_ + getInstrNumber(F, v), 0, d.mainF_)

setCurrentDebugLocation(f, v) ==
  /\ ~aborted
  /\ IF ~emitDebugInfo
       THEN /\ offCalls' = offCalls \cup {"setCurrentDebugLocation"}
            /\ UNCHANGED curLoc
       ELSE /\ DIBuilder_.constructed /\ ~DIBuilder_.finalized
            /\ curLoc' = [curLoc EXCEPT ![f] = debugLocationOf(dbgInfo_, F_, v)]
            /\ UNCHANGED offCalls
  /\ UNCHANGED <<emitDebugInfo, aborted, F_, valueNames, allocationsInfo_, irfile,
                 dbgInfo_, DIBuilder_, llmodule_, origNames, normOut, typeRet,
                 spRet, preSweep>>

(* Lowering: the builder of function f inserts one machine instruction,   *)
(* which takes the builder's current debug location.                       *)
Emitted(fn) == Cardinality({i \in 1..Len(fn.body) : fn.body[i].op = "call"})

EmitInstr(f) ==
  /\ ~aborted
  /\ ~DIBuilder_.finalized
  /\ Emitted(llmodule_.functions[f]) < MaxEmit
  /\ llmodule_' = [llmodule_ EXCEPT
                     !.functions[f].body = Append(@, Inst("call", 0, 0, curLoc[f]))]
  /\ UNCHANGED <<emitDebugInfo, aborted, F_, valueNames, allocationsInfo_, irfile,
                 dbgInfo_, DIBuilder_, curLoc, origNames, normOut, typeRet, spRet,
                 preSweep, offCalls>>

(* The shadow of argument i (0-based): alloca, llvm.dbg.declare before the *)
(* store, store; the builder's location was reset to none.                 *)
argShadow(i, scope) ==
  << Inst("alloca", i, 0, NullMD),
     Inst("dbg.declare", i, 0, DILocation(0, 0, scope)),
     Inst("store", i, 0, NullMD) >>

RECURSIVE argShadows(_, _, _)
argShadows(i, e, scope) ==
  IF i = e THEN <<>> ELSE argShadow(i, scope) \o argShadows(i + 1, e, scope)

createParameterVariable(scope, i, file, lineNo, ty) ==
  [kind |-> "DILocalVariable", scope |-> scope,
   name |-> <<"a","r","g">> \o to_string(i + 1), arg |-> i + 1,
   file |-> file, line |-> lineNo, type |-> ty]

(* if (I.getDebugLoc()) continue; of generateFunctionDebugInfo. *)
hasDebugLoc(I) == I.loc # NullMD

(* The closing loop of generateFunctionDebugInfo over the instructions. *)
fillMissingLocs(body, scope) ==
  IF scope = NullMD THEN body
  ELSE [i \in 1..Len(body) |->
          IF hasDebugLoc(body[i]) THEN body[i]
          ELSE [body[i] EXCEPT !.loc = DILocation(0, 0, scope)]]

(* The loop over the arguments and what follows it: r the result of       *)
(* getOrCreateFunctionDebugInfo, t the debug types of the parameters.      *)
instrumentArguments(f, fn0, file, r, t) ==
  /\ dbgInfo_' = [r.dbg EXCEPT !.DITypes_ = t.cache]
  /\ DIBuilder_' =
       [r.dib EXCEPT
          !.types = t.made,
          !.paramVars = @ \cup { createParameterVariable(r.ret, i, file, 0, t.rets[i + 1]) :
                                   i \in 0..(Len(fn0.params) - 1) },
          !.finalizedSubprograms = @ \cup {r.mod.functions[f].subprogram}]
  /\ llmodule_' =
       [r.mod EXCEPT !.functions[f].body =
          fillMissingLocs(argShadows(0, Len(fn0.params), r.ret) \o @,
                          r.mod.functions[f].subprogram)]
  /\ spRet' = AddRet(spRet, f, r.ret)
  /\ typeRet' = AddRets(TypeRetAfterSubprogram(typeRet, fn0, r.dbg), fn0.params, t.rets)
  /\ aborted' = ~(r.ok /\ t.ok)

instrumentFunction(f, fn0, file, r) ==
  instrumentArguments(f, fn0, file, r,
                      getDebugTypes(r.dbg.DITypes_, r.dib.types, fn0.params))

(* if (!emitDebugInfo) return; of generateFunctionDebugInfo. *)
functionDebugInfoOff == ~emitDebugInfo

generateFunctionDebugInfo(f) ==
  /\ ~aborted
  /\ IF functionDebugInfoOff
       THEN /\ offCalls' = offCalls \cup {"generateFunctionDebugInfo"}
            /\ UNCHANGED <<aborted, dbgInfo_, DIBuilder_, llmodule_, typeRet, spRet>>
       ELSE /\ DIBuilder_.constructed /\ ~DIBuilder_.finalized
            /\ llmodule_.functions[f].subprogram \notin DIBuilder_.finalizedSubprograms
            /\ instrumentFunction(f, llmodule_.functions[f], dbgInfo_.mainFile_,
                 getOrCreateFunctionDebugInfo(dbgInfo_, DIBuilder_, llmodule_, f,
                                              dbgInfo_.mainFile_, dbgInfo_.mainFile_, 0))
            /\ UNCHANGED offCalls
  /\ UNCHANGED <<emitDebugInfo, F_, valueNames, allocationsInfo_, irfile, curLoc,
                 origNames, normOut, preSweep>>

-----------------------------------------------------------------------------
(* DWARF operations of the address expression. *)
DW_OP_deref == 6
DW_OP_constu == 16
DW_OP_plus == 34

RECURSIVE Product(_)
Product(dims) == IF dims = <<>> THEN 1 ELSE Head(dims) * Product(Tail(dims))

(* ty->getSizeInBytes() of a float tensor. *)
getSizeInBytes(dims) == Product(dims) * (FloatBits \div 8)

baseAddressGVSwapped(d, valueKind) ==
  CASE valueKind = "Activation" -> d.constWeightsBaseAddressGV_
    [] valueKind = "ConstantWeight" -> d.activationsBaseAddressGV_
    [] valueKind = "MutableWeight" -> d.mutableWeightsBaseAddressGV_
    [] OTHER -> 0

(* The switch on the planner's class of the (origin) value. *)
baseAddressGV(d, valueKind) ==
  CASE valueKind = "Activation" -> d.activationsBaseAddressGV_
    [] valueKind = "ConstantWeight" -> d.constWeightsBaseAddressGV_
    [] valueKind = "MutableWeight" -> d.mutableWeightsBaseAddressGV_
    [] OTHER -> 0

(* The operations pushed into ops. *)
addressOps(offset) == <<DW_OP_deref, DW_OP_constu, offset, DW_OP_plus>>

(* The Value whose planner entries the record is built from. *)
describedValue(F, val) == getOrigin(F, val)

createArrayType(sizeBits, align, elem, subranges) ==
  [kind |-> "DICompositeType", sizeBits |-> sizeBits, align |-> align,
   elem |-> elem, subranges |-> subranges]

createGlobalVariableExpression(cu, name, file, ty, expr) ==
  [kind |-> "DIGlobalVariableExpression", scope |-> cu, name |-> name, file |-> file,
   line |-> 0, type |-> ty, local |-> FALSE, expr |-> expr, serial |-> 0]

(* baseAddress->addDebugInfo(DIgv). *)
addDebugInfo(d, b, m, e, base, arrayTy, gv) ==
  [dbg |-> [d EXCEPT !.DITypes_ = e.cache],
   dib |-> [b EXCEPT !.types = e.made, !.arrayTypes = @ \cup {arrayTy},
                     !.gvExprs = @ \cup {gv}],
   mod |-> [m EXCEPT !.globals[base].dbg = Append(@, gv)],
   ok |-> TRUE]

(* The record of origin o under the name `name`, e being the debug type of *)
(* the element type.                                                       *)
emitRecord(d, b, m, F, plan, name, o, e) ==
  IF /\ o \in DOMAIN plan.allocatedAddressed_
     /\ o \in DOMAIN plan.valueNumbers_
     /\ e.ok
    THEN addDebugInfo(d, b, m, e, baseAddressGV(d, plan.valueNumbers_[o]),
           createArrayType(getSizeInBytes(F.dims[o]) * 8, FloatAlign, e.ret, F.dims[o]),
           Fresh(b.gvExprs,
                 createGlobalVariableExpression(
                   d.compilationUnit_, name, d.mainFile_,
                   createArrayType(getSizeInBytes(F.dims[o]) * 8, FloatAlign,
                                   e.ret, F.dims[o]),
                   addressOps(plan.allocatedAddressed_[o]))))
    ELSE [dbg |-> d, dib |-> b, mod |-> m, ok |-> FALSE]

(* emitDebugGlobalVariableForValue(val) on the context d, the builder b,   *)
(* the module m.                                                           *)
emitDebugGlobalVariableForValue(d, b, m, F, names, plan, val) ==
  emitRecord(d, b, m, F, plan, names[val], describedValue(F, val),
             getDebugType(d.DITypes_, b.types, FloatTy))

(* The two loops of generateDebugInfo over the weights and the tensors. *)
RECURSIVE emitDebugGlobalVariables(_, _, _, _, _)
RECURSIVE thenEmit(_, _, _, _, _)
emitDebugGlobalVariables(r, F, names, plan, vs) ==
  IF vs = <<>> THEN r
  ELSE thenEmit(emitDebugGlobalVariableForValue(r.dbg, r.dib, r.mod, F, names, plan,
                                                Head(vs)),
                F, names, plan, Tail(vs))

thenEmit(r, F, names, plan, rest) ==
  IF r.ok THEN emitDebugGlobalVariables(r, F, names, plan, rest) ELSE r

sweepSkipsMissing(I, fn) ==
  IF I.loc = NullMD THEN TRUE ELSE I.loc.scope.name # fn.name

(* The sweep's test: a location of another scope is not updated. *)
sweepSkips(I, fn) == I.loc # NullMD /\ I.loc.scope.name # fn.name

(* The sweep of generateDebugInfo over one function. *)
sweepFunction(fn) ==
  IF fn.decl \/ fn.subprogram = NullMD THEN fn
  ELSE [fn EXCEPT !.body =
          [i \in 1..Len(fn.body) |->
             IF sweepSkips(fn.body[i], fn) THEN fn.body[i]
             ELSE [fn.body[i] EXCEPT !.loc = DILocation(0, 0, fn.subprogram)]]]

(* The first loop of generateDebugInfo reaches llvm_unreachable. *)
missingSubprogram(m) ==
  \E f \in FuncIds : ~m.functions[f].decl /\ m.functions[f].subprogram = NullMD

(* generateDebugInfo after its first loop: r is the state after the sweep  *)
(* and the records.                                                        *)
finishDebugInfo(r) ==
  /\ preSweep' = llmodule_.functions
  /\ dbgInfo_' = r.dbg
  /\ llmodule_' = r.mod
  /\ DIBuilder_' = [r.dib EXCEPT !.finalized = r.ok]
  /\ typeRet' = IF debugValues(F_) = <<>> \/ ~r.ok THEN typeRet
                ELSE AddRet(typeRet, FloatTy, r.dbg.DITypes_[FloatTy])
  /\ aborted' = ~r.ok

sweepModule(m) == [m EXCEPT !.functions = [f \in FuncIds |-> sweepFunction(m.functions[f])]]

(* if (!emitDebugInfo) return; of generateDebugInfo. *)
generateDebugInfoOff == ~emitDebugInfo

generateDebugInfo ==
  /\ ~aborted
  /\ IF generateDebugInfoOff
       THEN /\ offCalls' = offCalls \cup {"generateDebugInfo"}
            /\ UNCHANGED <<aborted, dbgInfo_, DIBuilder_, llmodule_, typeRet, preSweep>>
       ELSE /\ DIBuilder_.constructed /\ ~DIBuilder_.finalized
            /\ IF missingSubprogram(llmodule_)
                 THEN /\ aborted' = TRUE
                      /\ UNCHANGED <<dbgInfo_, DIBuilder_, llmodule_, typeRet, preSweep>>
                 ELSE finishDebugInfo(
                        emitDebugGlobalVariables(
                          [dbg |-> dbgInfo_, dib |-> DIBuilder_,
                           mod |-> sweepModule(llmodule_), ok |-> TRUE],
                          F_, valueNames, allocationsInfo_, debugValues(F_)))
            /\ UNCHANGED offCalls
  /\ UNCHANGED <<emitDebugInfo, F_, valueNames, allocationsInfo_, irfile, curLoc,
                 origNames, normOut, spRet>>

-----------------------------------------------------------------------------
(* Direct calls of the two helpers. *)
SupportedTypes ==
  { [base |-> "float", bits |-> 0, ptr |-> p] : p \in 0..MaxPtrDepth }
  \cup { VoidTy, IntNTy(SizeTBits), IntNTy(8) }

GetDebugTypeCall(ty) ==
  /\ ~aborted
  /\ DIBuilder_.constructed /\ ~DIBuilder_.finalized
  /\ LET r == getDebugType(dbgInfo_.DITypes_, DIBuilder_.types, ty)
     IN /\ dbgInfo_' = [dbgInfo_ EXCEPT !.DITypes_ = r.cache]
        /\ DIBuilder_' = [DIBuilder_ EXCEPT !.types = r.made]
        /\ typeRet' = AddRet(typeRet, ty, r.ret)
        /\ aborted' = ~r.ok
  /\ UNCHANGED <<emitDebugInfo, F_, valueNames, allocationsInfo_, irfile, llmodule_,
                 curLoc, origNames, normOut, spRet, preSweep, offCalls>>

GetOrCreateFunctionDebugInfoCall(f) ==
  /\ ~aborted
  /\ DIBuilder_.constructed /\ ~DIBuilder_.finalized
  /\ LET r == getOrCreateFunctionDebugInfo(dbgInfo_, DIBuilder_, llmodule_, f,
                                            dbgInfo_.mainFile_, dbgInfo_.mainFile_, 0)
     IN /\ dbgInfo_' = r.dbg
        /\ DIBuilder_' = r.dib
        /\ llmodule_' = r.mod
        /\ spRet' = AddRet(spRet, f, r.ret)
        /\ typeRet' = TypeRetAfterSubprogram(typeRet, llmodule_.functions[f], r.dbg)
        /\ aborted' = ~r.ok
  /\ UNCHANGED <<emitDebugInfo, F_, valueNames, allocationsInfo_, irfile, curLoc,
                 origNames, normOut, preSweep, offCalls>>

(* The lambda normalizeName applied to one Value. *)
NormalizeValue(v) ==
  /\ Len(normOut[v]) < 2
  /\ valueNames' = normalizeName(valueNames, v)
  /\ normOut' = [normOut EXCEPT ![v] = Append(@, valueNames'[v])]
  /\ UNCHANGED <<emitDebugInfo, aborted, F_, allocationsInfo_, irfile, dbgInfo_,
                 DIBuilder_, llmodule_, curLoc, origNames, typeRet, spRet,
                 preSweep, offCalls>>

-----------------------------------------------------------------------------
(* Inputs. *)
RECURSIVE SeqsUpTo(_, _)
SeqsUpTo(S, n) ==
  IF n = 0 THEN {<<>>}
  ELSE LET shorter == SeqsUpTo(S, n - 1)
       IN shorter \cup {Append(q, x) : q \in shorter, x \in S}

NameAlphabet == {"W", "b", "1", "_", "-", "."}
LongName == <<"W","-","1",".","b","i","a","s">>
Names == SeqsUpTo(NameAlphabet, MaxNameLen) \cup {LongName}

HeaderLine == <<"d","e","c","l","a","r","e"," ","{">>
DumpLines ==
  { Marker, Marker \o <<"}">>, <<"c","o","d","e">>, <<" ">> \o Marker, <<"}">> }
Dumps ==
  { [i \in 1..p |-> HeaderLine] \o t :
      p \in 0..MaxHeaderLines, t \in SeqsUpTo(DumpLines, 2) }

GoodDump == <<HeaderLine, <<"}">>, Marker, <<" ">>, <<"}">> >>

Offsets == {0, 128}
WeightKinds == {"ConstantWeight", "MutableWeight"}
InstrKinds == {"AllocActivationInst", "TensorViewInst", "OtherInst"}

(* An IR function of nW WeightVars (Values 1..nW) followed by instructions *)
(* of the classes ik with the TensorView sources sr.                       *)
MkFunction(nW, ik, sr, dump) ==
  LET n == nW + Len(ik) IN
  [vars |-> [i \in 1..nW |-> i],
   instrs |-> [i \in 1..Len(ik) |-> nW + i],
   kind |-> [v \in 1..n |-> IF v <= nW THEN "WeightVar" ELSE ik[v - nW]],
   src |-> [v \in 1..n |-> IF v <= nW THEN 0 ELSE sr[v - nW]],
   dims |-> [v \in 1..n |-> IF v <= nW THEN <<2, 3>> ELSE <<4>>],
   dump |-> dump]

WellFormed(F) ==
  \A v \in DOMAIN F.kind :
    IF F.kind[v] = "TensorViewInst"
      THEN F.src[v] \in 1..(v - 1) /\ F.kind[F.src[v]] # "OtherInst"
      ELSE F.src[v] = 0

Functions(maxW, maxI, dump) ==
  { F \in UNION { { MkFunction(nW, ik, sr, dump) :
                      sr \in [1..Len(ik) -> 0..(maxW + maxI)] } :
                    nW \in 0..maxW, ik \in SeqsUpTo(InstrKinds, maxI) } :
      WellFormed(F) }

Allocations(F) == {v \in DOMAIN F.kind : F.kind[v] \in {"WeightVar", "AllocActivationInst"}}

(* The planner's tables for F: a class and an offset per allocation. *)
Plans(F) ==
  { [valueNumbers_ |-> k, allocatedAddressed_ |-> a] :
      k \in { kk \in [Allocations(F) -> WeightKinds \cup {"Activation"}] :
                \A v \in Allocations(F) :
                  (kk[v] = "Activation") <=> (F.kind[v] = "AllocActivationInst") },
      a \in [Allocations(F) -> Offsets] }

(* The Values of one IR function have distinct names. *)
DefaultName(v) ==
  CASE v = 1 -> <<"W","-","1">> [] v = 2 -> <<"a",".","0">>
    [] v = 3 -> <<"v","_","2">> [] OTHER -> <<"t","@">> \o to_string(v)

StdFunction ==
  MkFunction(1, <<"AllocActivationInst", "TensorViewInst">>, <<0, 2>>, GoodDump)
StdPlan ==
  [valueNumbers_ |-> (1 :> "ConstantWeight") @@ (2 :> "Activation"),
   allocatedAddressed_ |-> (1 :> 128) @@ (2 :> 0)]

InitWith(flag, F, names, plan) ==
  /\ emitDebugInfo = flag
  /\ aborted = FALSE
  /\ F_ = F
  /\ valueNames = names
  /\ allocationsInfo_ = plan
  /\ irfile = [written |-> FALSE, name |-> "", dir |-> "", content |-> <<>>]
  /\ dbgInfo_ = InitDbgInfo
  /\ DIBuilder_ = InitDIBuilder
  /\ llmodule_ = InitModule
  /\ curLoc = [f \in Defined |-> NullMD]
  /\ origNames = names
  /\ normOut = [v \in DOMAIN names |-> <<>>]
  /\ typeRet = <<>>
  /\ spRet = <<>>
  /\ preSweep = <<>>
  /\ offCalls = {}

(* The normalization on its own, over every name of the bounded set. *)
InitNormalize ==
  \E nm \in Names :
    InitWith(TRUE, MkFunction(1, <<>>, <<>>, GoodDump), [v \in {1} |-> nm],
             [valueNumbers_ |-> (1 :> "ConstantWeight"),
              allocatedAddressed_ |-> (1 :> 0)])

NextNormalize == NormalizeValue(1)

SpecNormalize == InitNormalize /\ [][NextNormalize]_vars

(* Initialization and location over every dump of the bounded set. *)
InitDump ==
  \E flag \in BOOLEAN, dump \in Dumps :
    LET F == MkFunction(0, [i \in 1..DumpInstrs |-> "OtherInst"],
                        [i \in 1..DumpInstrs |-> 0], dump)
    IN InitWith(flag, F, [v \in 1..DumpInstrs |-> DefaultName(v)],
                [valueNumbers_ |-> <<>>, allocatedAddressed_ |-> <<>>])

NextDump ==
  \/ initDebugInfo
  \/ \E f \in Defined, i \in 1..Len(F_.instrs) : setCurrentDebugLocation(f, F_.instrs[i])

SpecDump == InitDump /\ [][NextDump]_vars

(* The whole pipeline on one IR function. *)
Init ==
  \E flag \in BOOLEAN, dump \in {GoodDump, <<HeaderLine, <<"}">> >>} :
    InitWith(flag, [StdFunction EXCEPT !.dump = dump],
             [v \in 1..3 |-> DefaultName(v)], StdPlan)

Next ==
  \/ initDebugInfo
  \/ \E f \in Defined, i \in 1..Len(F_.instrs) : setCurrentDebugLocation(f, F_.instrs[i])
  \/ \E f \in Defined : EmitInstr(f)
  \/ \E f \in Defined : generateFunctionDebugInfo(f)
  \/ generateDebugInfo

Spec == Init /\ [][Next]_vars

(* The global-variable records over every IR function and plan. *)
InitGlobals ==
  \E F \in Functions(MaxWeights, MaxIRInstrs, GoodDump) :
    \E plan \in Plans(F) :
      InitWith(TRUE, F, [v \in DOMAIN F.kind |-> DefaultName(v)], plan)

NextGlobals ==
  \/ initDebugInfo
  \/ \E f \in Defined : generateFunctionDebugInfo(f)
  \/ generateDebugInfo

SpecGlobals == InitGlobals /\ [][NextGlobals]_vars

(* The type cache under direct calls of getDebugType and of the functions  *)
(* that ask it for their signature.                                        *)
InitTypes ==
  InitWith(TRUE, StdFunction, [v \in 1..3 |-> DefaultName(v)], StdPlan)

NextTypes ==
  \/ initDebugInfo
  \/ \E ty \in SupportedTypes : GetDebugTypeCall(ty)
  \/ \E f \in {"kernel", "llvmk"} : GetOrCreateFunctionDebugInfoCall(f)

SpecTypes == InitTypes /\ [][NextTypes]_vars

(* The subprograms under direct and indirect calls. *)
NextSubprograms ==
  \/ initDebugInfo
  \/ \E f \in FuncIds : GetOrCreateFunctionDebugInfoCall(f)
  \/ \E f \in Defined : generateFunctionDebugInfo(f)

SpecSubprograms == InitTypes /\ [][NextSubprograms]_vars

-----------------------------------------------------------------------------
(* Properties. *)
Min(S) == CHOOSE x \in S : \A y \in S : x <= y

IdentChars == Lower \cup Upper \cup Digits \cup {"_"}

PrefixMarkers(lines) ==
  { n \in 1..Len(lines) :
      Len(lines[n]) >= Len(Marker) /\ SubSeq(lines[n], 1, Len(Marker)) = Marker }

ExactMarkers(lines) == { n \in 1..Len(lines) : lines[n] = Marker }

MainSubprogram == llmodule_.functions["main"].subprogram

(* C1: with debug info on and initDebugInfo run, setCurrentDebugLocation on *)
(* the instruction of index i sets the builder's location to line          *)
(* (marker line + 1) + i, column 0, scope the subprogram of main.          *)
C1_LocationIsFirstLinePlusIndex ==
  [][ \A f \in Defined, i \in 1..Len(F_.instrs) :
        (emitDebugInfo /\ setCurrentDebugLocation(f, F_.instrs[i])) =>
          /\ PrefixMarkers(irfile.content) # {}
          /\ MainSubprogram # NullMD
          /\ curLoc'[f] = [kind |-> "DILocation",
                           line |-> (Min(PrefixMarkers(irfile.content)) + 1) + (i - 1),
                           col |-> 0, scope |-> MainSubprogram] ]_vars

(* Marker on line 10 and 5 instructions: the last one is on line 15. *)
C1_Witness ==
  /\ emitDebugInfo
  /\ Len(irfile.content) >= 10 /\ Min(PrefixMarkers(irfile.content) \cup {11}) = 10
  /\ Len(F_.instrs) = 5
  /\ curLoc["main"] # NullMD
  /\ curLoc["main"].line = 15

(* What the scan leaves when `markers` are the marker lines of the dump. *)
ScanOutcome(markers) ==
  IF markers # {}
    THEN dbgInfo_.mainFileFirstInstrLineNo_ = Min(markers) + 1
    ELSE /\ aborted
         /\ dbgInfo_.mainFile_ = NullMD /\ dbgInfo_.compilationUnit_ = NullMD
         /\ dbgInfo_.mainF_ = NullMD
         /\ DIBuilder_.files = {} /\ DIBuilder_.compileUnits = {}
         /\ DIBuilder_.subprograms = {}
         /\ \A f \in FuncIds : llmodule_.functions[f].subprogram = NullMD

(* C2 as stated: the marker is the first line exactly equal to "code {";   *)
(* the first instruction line is its number plus one; with no such line    *)
(* the scan is fatal and no file, compile unit or subprogram is made.      *)
C2_ExactMarker ==
  (emitDebugInfo /\ irfile.written) => ScanOutcome(ExactMarkers(irfile.content))

(* C2 amended: the marker is the first line whose first six characters are *)
(* "code {"; the rest as stated.                                           *)
C2_PrefixMarker ==
  (emitDebugInfo /\ irfile.written) => ScanOutcome(PrefixMarkers(irfile.content))

(* A line "code {}" right before a line "code {" was taken as the marker. *)
C2_Witness ==
  /\ emitDebugInfo /\ irfile.written /\ ~aborted
  /\ \E n \in 1..(Len(irfile.content) - 1) :
       /\ irfile.content[n] = Marker \o <<"}">>
       /\ irfile.content[n + 1] = Marker
       /\ n = Min(PrefixMarkers(irfile.content))
       /\ dbgInfo_.mainFileFirstInstrLineNo_ = n + 1
  /\ dbgInfo_.mainF_ # NullMD

(* C3: the sweep of generateDebugInfo changes only instructions without a  *)
(* location, which get (0, 0, subprogram of their function); every         *)
(* instruction that had a location keeps it.                               *)
C3_SweepOnlyFillsMissing ==
  DIBuilder_.finalized =>
    \A f \in FuncIds :
      /\ Len(llmodule_.functions[f].body) = Len(preSweep[f].body)
      /\ \A i \in 1..Len(preSweep[f].body) :
           IF preSweep[f].body[i].loc # NullMD
             THEN llmodule_.functions[f].body[i] = preSweep[f].body[i]
             ELSE IF preSweep[f].subprogram # NullMD
                    THEN llmodule_.functions[f].body[i].loc =
                           [kind |-> "DILocation", line |-> 0, col |-> 0,
                            scope |-> preSweep[f].subprogram]
                    ELSE llmodule_.functions[f].body[i] = preSweep[f].body[i]

(* C4: after generateDebugInfo every instruction of every defined function *)
(* that has a subprogram carries a location.                               *)
C4_AllInstructionsLocated ==
  DIBuilder_.finalized =>
    \A f \in FuncIds :
      (~llmodule_.functions[f].decl /\ llmodule_.functions[f].subprogram # NullMD) =>
        \A i \in 1..Len(llmodule_.functions[f].body) :
          llmodule_.functions[f].body[i].loc # NullMD

(* Before the sweep: an instruction with no location, one of the own scope *)
(* and one of another function's scope.                                    *)
C4_Witness ==
  /\ DIBuilder_.finalized
  /\ \E i \in 1..Len(preSweep["main"].body) : preSweep["main"].body[i].loc = NullMD
  /\ \E i \in 1..Len(preSweep["main"].body) :
       /\ preSweep["main"].body[i].loc # NullMD
       /\ preSweep["main"].body[i].loc.scope = preSweep["main"].subprogram
  /\ \E i \in 1..Len(preSweep["kernel"].body) :
       /\ preSweep["kernel"].body[i].loc # NullMD
       /\ preSweep["kernel"].body[i].loc.scope = preSweep["main"].subprogram

(* The requested types and the pointees reached from them. *)
PointeeClosure(T) == UNION { { [t EXCEPT !.ptr = q] : q \in 0..t.ptr } : t \in T }

(* Every call for a type returned the one cached descriptor; one node per  *)
(* cached type other than void, whose descriptor is null.                  *)
OneDescriptorPerType ==
  /\ \A t \in DOMAIN typeRet :
       t \in DOMAIN dbgInfo_.DITypes_ /\ typeRet[t].rets = {dbgInfo_.DITypes_[t]}
  /\ \A t \in DOMAIN dbgInfo_.DITypes_ :
       IF t = VoidTy THEN dbgInfo_.DITypes_[t] = NullMD
       ELSE dbgInfo_.DITypes_[t] \in DIBuilder_.types
  /\ \A n \in DIBuilder_.types : n.serial = 0
  /\ Cardinality(DIBuilder_.types) =
       Cardinality({t \in DOMAIN dbgInfo_.DITypes_ : t # VoidTy})

(* C5 as stated: a repeated request returns the identical descriptor, at   *)
(* most one descriptor is made per native type, and the cache has as many  *)
(* entries as distinct types were requested.                               *)
C5_CacheSizeIsRequested ==
  ~aborted =>
    /\ OneDescriptorPerType
    /\ Cardinality(DOMAIN dbgInfo_.DITypes_) = Cardinality(DOMAIN typeRet)

(* C5 amended: the cache holds the requested types and every pointee type  *)
(* reached from a requested pointer type.                                  *)
C5_CacheIsPointeeClosure ==
  ~aborted =>
    /\ OneDescriptorPerType
    /\ DOMAIN dbgInfo_.DITypes_ = PointeeClosure(DOMAIN typeRet)

(* float** and void were asked for twice, float never. *)
C5_Witness ==
  /\ PointerTo(PointerTo(FloatTy)) \in DOMAIN typeRet
  /\ typeRet[PointerTo(PointerTo(FloatTy))].calls = 2
  /\ FloatTy \notin DOMAIN typeRet
  /\ FloatTy \in DOMAIN dbgInfo_.DITypes_
  /\ typeRet[VoidTy].calls = 2

(* C6: for a function with a name that is not empty and not "llvm.*", all  *)
(* calls return the one subprogram made, which is attached; for the other  *)
(* functions every call returns null and nothing is made or attached.      *)
C6_SubprogramIdempotent ==
  \A f \in DOMAIN spRet :
    LET name == llmodule_.functions[f].name
        made == {sp \in DIBuilder_.subprograms : sp.name = name}
    IN IF name = <<>> \/ (Len(name) >= 5 /\ SubSeq(name, 1, 5) = <<"l","l","v","m",".">>)
         THEN /\ spRet[f].rets = {NullMD}
              /\ llmodule_.functions[f].subprogram = NullMD
              /\ made = {}
         ELSE /\ Cardinality(made) = 1
              /\ spRet[f].rets = made
              /\ llmodule_.functions[f].subprogram \in made

C6_Witness ==
  /\ {"kernel", "llvmk", "intrinsic", "anon", "main"} \subseteq DOMAIN spRet
  /\ \A f \in FuncIds : spRet[f].calls = 2

-----------------------------------------------------------------------------
(* Run time: main stores its first three arguments, the debugger evaluates *)
(* the expression of a record attached to global g.                        *)
BaseAddrs == {4096, 65536}
RuntimeArgs == [0..2 -> BaseAddrs]

RECURSIVE RunStores(_, _, _)
RunStores(body, args, mem) ==
  IF body = <<>> THEN mem
  ELSE RunStores(Tail(body), args,
                 IF Head(body).op = "store" /\ Head(body).gv # 0
                   THEN [mem EXCEPT ![Head(body).gv] = args[Head(body).arg]]
                   ELSE mem)

MemoryAfterMain(args) ==
  RunStores(llmodule_.functions["main"].body, args,
            [g \in 1..Len(llmodule_.globals) |-> 0])

RECURSIVE EvalOps(_, _, _)
EvalOps(ops, stack, mem) ==
  IF ops = <<>> THEN Head(stack)
  ELSE IF Head(ops) = DW_OP_deref
    THEN EvalOps(Tail(ops), <<mem[Head(stack)]>> \o Tail(stack), mem)
  ELSE IF Head(ops) = DW_OP_constu
    THEN EvalOps(Tail(Tail(ops)), <<ops[2]>> \o stack, mem)
  ELSE IF Head(ops) = DW_OP_plus
    THEN EvalOps(Tail(ops), <<stack[2] + stack[1]>> \o Tail(Tail(stack)), mem)
  ELSE -1

ArgIndexOf(valueKind) ==
  CASE valueKind = "ConstantWeight" -> 0
    [] valueKind = "MutableWeight" -> 1
    [] OTHER -> 2

GlobalNamed(nm) == CHOOSE g \in 1..Len(llmodule_.globals) : llmodule_.globals[g].name = nm

GlobalOf(valueKind) ==
  CASE valueKind = "ConstantWeight" -> GlobalNamed("constWeightsBaseAddress")
    [] valueKind = "MutableWeight" -> GlobalNamed("mutableWeightsBaseAddress")
    [] OTHER -> GlobalNamed("activationsBaseAddress")

RecordsOf(g) == {llmodule_.globals[g].dbg[i] : i \in 1..Len(llmodule_.globals[g].dbg)}

Described == {v \in DOMAIN F_.kind : F_.kind[v] # "OtherInst"}

(* C7: the record of every tensor is attached to the base global of the    *)
(* planner's class and its expression evaluates, for all run-time base     *)
(* pointers, to base[class] + the planner's offset.                        *)
C7_AddressIsBasePlusOffset ==
  DIBuilder_.finalized =>
    \A v \in Described :
      LET o == getOrigin(F_, v)
          cls == allocationsInfo_.valueNumbers_[o]
          off == allocationsInfo_.allocatedAddressed_[o]
      IN /\ \E rec \in RecordsOf(GlobalOf(cls)) : rec.name = valueNames[v]
         /\ \A g \in 1..Len(llmodule_.globals) :
              \A rec \in RecordsOf(g) :
                rec.name = valueNames[v] =>
                  /\ g = GlobalOf(cls)
                  /\ \A args \in RuntimeArgs :
                       EvalOps(rec.expr, <<g>>, MemoryAfterMain(args)) =
                         args[ArgIndexOf(cls)] + off

(* A view of a mutable weight at offset 128 and an activation are described. *)
C7_Witness ==
  /\ DIBuilder_.finalized
  /\ \E v \in Described :
       /\ F_.kind[v] = "TensorViewInst"
       /\ allocationsInfo_.valueNumbers_[getOrigin(F_, v)] = "MutableWeight"
       /\ allocationsInfo_.allocatedAddressed_[getOrigin(F_, v)] = 128
  /\ \E v \in Described : F_.kind[v] = "AllocActivationInst"

AllRecords == UNION { RecordsOf(g) : g \in 1..Len(llmodule_.globals) }
RecordCount ==
  IF llmodule_.globals = <<>> THEN 0
  ELSE Len(llmodule_.globals[1].dbg) + Len(llmodule_.globals[2].dbg)
         + Len(llmodule_.globals[3].dbg)

(* C8 as stated: one record per underlying allocation, none for a view.    *)
C8_OneRecordPerAllocation ==
  DIBuilder_.finalized =>
    RecordCount = Cardinality({v \in Described : F_.kind[v] # "TensorViewInst"})

(* C8 amended: one record per weight, activation and tensor view; the      *)
(* record of a view has the view's name and its origin's base and offset.  *)
C8_OneRecordPerTensor ==
  DIBuilder_.finalized =>
    /\ RecordCount = Cardinality(Described)
    /\ Cardinality(AllRecords) = Cardinality(Described)
    /\ \A v \in Described :
         F_.kind[v] = "TensorViewInst" =>
           \E rec \in RecordsOf(GlobalOf(allocationsInfo_.valueNumbers_[getOrigin(F_, v)])) :
             /\ rec.name = valueNames[v]
             /\ rec.expr = <<DW_OP_deref, DW_OP_constu,
                             allocationsInfo_.allocatedAddressed_[getOrigin(F_, v)],
                             DW_OP_plus>>

(* A view of a view: three tensors, one allocation. *)
C8_Witness ==
  /\ DIBuilder_.finalized
  /\ \E v \in Described :
       /\ F_.kind[v] = "TensorViewInst"
       /\ F_.kind[F_.src[v]] = "TensorViewInst"
  /\ RecordCount > Cardinality({v \in Described : F_.kind[v] # "TensorViewInst"})

(* C9: with the flag off the four entry points leave the module and the    *)
(* debug context as they were: no record, no file, no global, no shadow.   *)
C9_FlagOffChangesNothing ==
  ~emitDebugInfo =>
    /\ ~aborted
    /\ dbgInfo_ = InitDbgInfo
    /\ DIBuilder_ = InitDIBuilder
    /\ ~irfile.written
    /\ valueNames = origNames
    /\ llmodule_.flags = {} /\ llmodule_.globals = <<>>
    /\ \A f \in Defined : curLoc[f] = NullMD
    /\ \A f \in FuncIds :
         /\ llmodule_.functions[f].subprogram = NullMD
         /\ \A i \in 1..Len(llmodule_.functions[f].body) :
              /\ llmodule_.functions[f].body[i].op = "call"
              /\ llmodule_.functions[f].body[i].loc = NullMD

C9_Witness ==
  /\ ~emitDebugInfo
  /\ offCalls = {"initDebugInfo", "setCurrentDebugLocation",
                 "generateFunctionDebugInfo", "generateDebugInfo"}
  /\ llmodule_.functions["main"].body # <<>>
  /\ llmodule_.functions["kernel"].body # <<>>

(* C10: the normalized name has the length of the input, keeps every       *)
(* letter, digit and underscore in place, has an underscore everywhere     *)
(* else, and normalizing it again changes nothing.                         *)
C10_NormalizeTotalIdempotent ==
  \A v \in DOMAIN normOut :
    /\ Len(normOut[v]) < 2 => ENABLED NormalizeValue(v)
    /\ Len(normOut[v]) >= 1 =>
         /\ valueNames[v] = normOut[v][Len(normOut[v])]
         /\ Len(normOut[v][1]) = Len(origNames[v])
         /\ \A i \in 1..Len(origNames[v]) :
              /\ normOut[v][1][i] \in IdentChars
              /\ normOut[v][1][i] =
                   (IF origNames[v][i] \in IdentChars THEN origNames[v][i] ELSE "_")
         /\ origNames[v] = <<"W","-","1",".","b","i","a","s">> =>
              normOut[v][1] = <<"W","_","1","_","b","i","a","s">>
    /\ Len(normOut[v]) = 2 => normOut[v][2] = normOut[v][1]

C10_Witness ==
  /\ Len(normOut[1]) = 2
  /\ origNames[1] = <<"W","-","1",".","b","i","a","s">>
  /\ valueNames[1] = <<"W","_","1","_","b","i","a","s">>

====
